---- MODULE Spec2Model ----
(***************************************************************************)
(* ParticleEmitter (ParticleEmitter.cpp): a fixed-capacity particle pool   *)
(* with a live/dead boundary m_firstDead, an emission timer, a per-frame   *)
(* sweep that ages, retires and turns particles into quads, and a draw     *)
(* that uploads the live prefix of the staging buffer.                     *)
(*                                                                         *)
(* Time values are IEEE-754 binary32 floats, as in the code.  A float in   *)
(* [0, 8) is held as the integer number of units of 2^-28 s it equals;     *)
(* every float >= 2^-5 in that range is a whole number of units, and       *)
(* sums and differences of such values are rounded to 24 significant bits  *)
(* with ties to even, which is what the hardware does.                     *)
(*                                                                         *)
(* Ratios lifetime/lifespan, sizes and colour channels are binary32 too,   *)
(* held in units of 2^-30; a colour stands for each of its four channels,  *)
(* which the code computes alike.  A staged vertex records which corner    *)
(* of whose quad it is and the size and colour it was made with.           *)
(*                                                                         *)
(* update() is split at its loop heads: pc is the caller's position.       *)
(*                                                                         *)
(* Spec is the emitter's life: initialise, then update() and draw() calls. *)
(* SpecBillboard is the quad synthesis of update() on its own, as a        *)
(* function of the camera and of one particle's position and size, with    *)
(* the float products rounded as the hardware rounds them.                 *)
(***************************************************************************)
EXTENDS Integers, Sequences, FiniteSets, TLC

\* ------------------------------------------------------------------ bounds
MaxCapacity == 3
MaxFrames   == 3
MaxDraws    == 2
\* emit() calls followed within one update(); the rates below 2^25 need 11
MaxEmits    == 12

\* ------------------------------------------------- binary32 on a 2^-28 grid
One == 2^28

\* Spacing of the floats around a value of n units: 2^(e-23) for n in
\* [2^e, 2^(e+1)), never finer than one unit.
Ulp(n) ==
    IF n < 2^24 THEN 1
    ELSE IF n < 2^25 THEN 2
    ELSE IF n < 2^26 THEN 4
    ELSE IF n < 2^27 THEN 8
    ELSE IF n < 2^28 THEN 16
    ELSE IF n < 2^29 THEN 32
    ELSE IF n < 2^30 THEN 64
    ELSE 128

\* num/den units rounded to the nearest float, ties to the even mantissa.
RoundRatio(num, den) ==
    LET g == Ulp(num \div den)
        d == den * g
        q == num \div d
        r == num - q * d
    IN  IF 2 * r < d THEN q * g
        ELSE IF 2 * r > d THEN (q + 1) * g
        ELSE IF q % 2 = 0 THEN q * g
        ELSE (q + 1) * g

Abs(n) == IF n < 0 THEN -n ELSE n

\* Rounding is symmetric about zero.
Round24(n) == IF n < 0 THEN -RoundRatio(-n, 1) ELSE RoundRatio(n, 1)

FAdd(a, b) == Round24(a + b)
FSub(a, b) == Round24(a - b)

\* 1.0 on the grid of ratios, sizes and colours.
RatioOne == 2^30

\* q + r / y units (0 <= r < y) rounded to the nearest float, ties to the
\* even mantissa.
RoundQuot(q, r, y) ==
    LET g    == Ulp(q)
        low  == q % g
        down == q - low
        up   == down + g
        tie  == IF (down \div g) % 2 = 0 THEN down ELSE up
    IN  IF g = 1
        THEN (IF 2 * r < y THEN down ELSE IF 2 * r > y THEN up ELSE tie)
        ELSE IF 2 * low < g THEN down
        ELSE IF 2 * low > g THEN up
        ELSE IF r > 0 THEN up
        ELSE tie

\* x * y for x, y >= 0 on the grid where 1.0 is one, as <<q, r>>: the
\* product is q + r / one units, exactly.  The factors are split in halves
\* to keep every intermediate below 2^31.
Product(x, y, one) ==
    LET h    == IF one = One THEN 2^14 ELSE 2^15
        x1   == x \div h
        x0   == x % h
        y1   == y \div h
        y0   == y % h
        mid  == x1 * y0 + x0 * y1
        rest == (mid % h) * h + x0 * y0
    IN  <<x1 * y1 + mid \div h + rest \div one, rest % one>>

\* x * y rounded to the nearest float.
FMul(x, y, one) ==
    LET p == Product(Abs(x), Abs(y), one)
        m == RoundQuot(p[1], p[2], one)
    IN  IF (x < 0) = (y < 0) THEN m ELSE -m

\* The quotient bits of r / y, n more to come after the q already found.
RECURSIVE DivBits(_, _, _, _)
DivBits(q, r, y, n) ==
    IF n = 0 THEN <<q, r>>
    ELSE IF 2 * r >= y THEN DivBits(2 * q + 1, 2 * r - y, y, n - 1)
    ELSE DivBits(2 * q, 2 * r, y, n - 1)

\* x / y for 0 <= x < y as a ratio, rounded to the nearest float, ties to
\* the even mantissa.
FDiv(x, y) ==
    LET qr == DivBits(0, x, y, 30)
    IN  RoundQuot(qr[1], qr[2], y)

Mix_swapped(x, y, a) ==
    FAdd(FMul(y, FSub(RatioOne, a), RatioOne), FMul(x, a, RatioOne))

\* glm::mix(x, y, a) = x * (1 - a) + y * a.
Mix(x, y, a) ==
    FAdd(FMul(x, FSub(RatioOne, a), RatioOne), FMul(y, a, RatioOne))

\* A decimal literal num/den (0.05f is Literal(1, 20)) as the compiler
\* rounds it.
Literal(num, den) == RoundRatio(num * One, den)

\* ---------------------------------------------------------------- inputs
F0_05 == Literal(1, 20)
F0_2  == Literal(1, 5)
F0_5  == Literal(1, 2)
F1_0  == Literal(1, 1)
F2_0  == Literal(2, 1)
F1_32 == Literal(1, 32)
\* a lifespan range whose ends are not round: 3 floats above 1/32 to 5 floats
\* above 3/32
LifespanLow  == F1_32 + 3 * Ulp(F1_32)
LifespanHigh == 3 * F1_32 + 5 * Ulp(3 * F1_32)

DeltaTimes   == {0, F0_05, F0_2, F0_5, F1_0}
EmitRates    == {1, 2, 10, 2^25}
LifespanArgs == {<<F0_5, F0_5>>, <<F2_0, F2_0>>, <<0, 0>>,
                 <<LifespanLow, LifespanHigh>>}
\* values of rand() / (float)RAND_MAX: rand() = 0 and rand() = RAND_MAX
RandFractions == {0, One}
\* a_velocityMin, a_velocityMax
VelocityArgs == {<<0, 0>>}
\* a_startSize, a_endSize, a_startColour, a_endColour
SizeColourArgs == {<<RatioOne, 0, 0, RatioOne>>}
\* values glm::normalize can return in emit()
Directions == {<<One, 0, 0>>, <<0, One, 0>>, <<0, 0, One>>}

\* a_cameraTransform: column 1 (the camera's up, here the world's) on the
\* ratio grid and column 3 (the camera's position) in whole units, level
\* with the particle and 5 or 13 units from it.
WorldUp == <<0, RatioOne, 0>>
CameraPositions ==
    {<<0, 0, 5>>, <<3, 0, 4>>, <<4, 0, 3>>, <<5, 0, 0>>, <<-3, 0, 4>>,
     <<3, 0, -4>>, <<0, 0, -5>>, <<5, 0, 12>>, <<-12, 0, 5>>}
CameraTransforms == {[up |-> WorldUp, position |-> c] : c \in CameraPositions}
\* Sizes the sweep gives a particle shrinking from 1.0 to 0.
BillboardSizes ==
    {RatioOne} \cup
    {Mix(RatioOne, 0, FDiv(t[1], t[2])) :
        t \in {<<F0_05, F0_5>>, <<F0_2, F0_5>>, <<F0_05, F2_0>>,
               <<F0_2, F2_0>>, <<F0_5, F2_0>>, <<F1_0, F2_0>>}}
NoCamera == [up |-> <<0, 0, 0>>, position |-> <<0, 0, 0>>]

\* Contents of memory that new[] returned and nothing has written yet.
NoParticle == [id |-> 0, lifetime |-> 0, lifespan |-> 0,
               position |-> <<0, 0, 0>>, velocity |-> <<0, 0, 0>>,
               size |-> 0, colour |-> 0]
NoVertex   == [src |-> 0, frame |-> 0, corner |-> 0, size |-> 0, colour |-> 0]
\* Values a member the constructor does not set can hold.
Indeterminate == {0, One}

VARIABLES
    pc,              \* "constructed", "idle", "emit" (line 178), "sweep" (line 185)
    m_maxParticles, m_firstDead, m_emitTimer, m_emitRate,
    m_lifespanMin, m_lifespanMax,
    m_velocityMin, m_velocityMax,
    m_startSize, m_endSize, m_startColour, m_endColour,
    m_position,      \* the emitter's anchor
    m_particles,     \* 0..m_maxParticles-1 -> particle record
    m_vertexData,    \* 0..4*m_maxParticles-1 -> vertex record
    a_deltaTime, i, quad,          \* update()'s argument and locals
    vbo,             \* device vertex buffer contents
    drawn,           \* index count of the last glDrawElements, per draw()
    uploaded,        \* record count of the last glBufferSubData
    ibo,             \* device index buffer contents
    bpc,             \* position in the quad synthesis of lines 205-239
    a_cameraTransform,
    particle,        \* position and size of the particle being staged
    zAxis, xAxis, yAxis,
    billboardQuad,   \* positions written to m_vertexData[quad * 4 + 0..3]
    \* history
    frame,           \* update() calls begun
    dtLog,           \* their a_deltaTime arguments
    emitCalls,       \* emit() calls so far
    dropped,         \* of those, the ones that returned at line 141
    emitsNow,        \* emit() calls of the current update()
    firstDeadAtEntry,
                     \* m_firstDead when the current update() was entered
    sweepLive,       \* ids live when the current sweep started
    sweepAged,       \* ids whose lifetime the current sweep advanced
    sweepRetired,    \* ids the current sweep retired
    draws            \* draw() calls since the last update()

config  == <<m_maxParticles, m_emitRate, m_lifespanMin, m_lifespanMax,
             m_velocityMin, m_velocityMax, m_startSize, m_endSize,
             m_startColour, m_endColour, m_position>>
locals  == <<a_deltaTime, i, quad>>
device  == <<vbo, drawn, uploaded, ibo>>
history == <<frame, dtLog, emitCalls, dropped, emitsNow, firstDeadAtEntry>>
sweepH  == <<sweepLive, sweepAged, sweepRetired>>
emitter == <<pc, config, m_firstDead, m_emitTimer, m_particles,
             m_vertexData, locals, device, history, sweepH, draws>>
geometry == <<bpc, a_cameraTransform, particle, zAxis, xAxis, yAxis,
              billboardQuad>>
vars == <<emitter, geometry>>

\* ------------------------------------------------------------ construction
InitEmitter ==
    /\ pc = "constructed"
    /\ m_particles = << >>
    /\ m_firstDead = 0
    /\ m_maxParticles = 0
    /\ m_vertexData = << >>
    /\ \E junk \in Indeterminate :
          /\ m_emitTimer = junk
          /\ m_emitRate = junk
          /\ m_lifespanMin = junk
          /\ m_lifespanMax = junk
          /\ m_velocityMin = junk
          /\ m_velocityMax = junk
          /\ m_startSize = junk
          /\ m_endSize = junk
          /\ m_startColour = junk
          /\ m_endColour = junk
    /\ m_position = <<0, 0, 0>>
    /\ a_deltaTime = 0 /\ i = 0 /\ quad = 0
    /\ vbo = << >> /\ drawn = 0 /\ uploaded = 0
    /\ ibo = << >>
    /\ frame = 0 /\ dtLog = << >> /\ emitCalls = 0 /\ dropped = 0
    /\ emitsNow = 0 /\ firstDeadAtEntry = 0
    /\ sweepLive = {} /\ sweepAged = {} /\ sweepRetired = {}
    /\ draws = 0

\* No quad is being synthesized.
Init ==
    /\ InitEmitter
    /\ bpc = "off"
    /\ a_cameraTransform = NoCamera
    /\ particle = [position |-> <<0, 0, 0>>, size |-> 0]
    /\ zAxis = <<0, 0, 0>> /\ xAxis = <<0, 0, 0>> /\ yAxis = <<0, 0, 0>>
    /\ billboardQuad = << >>

\* --------------------------------------------------------------- initialise
indexQuad_strip(data, n) ==
    [data EXCEPT ![n * 6 + 0] = n * 4 + 0,
                 ![n * 6 + 1] = n * 4 + 1,
                 ![n * 6 + 2] = n * 4 + 2,
                 ![n * 6 + 3] = n * 4 + 1,
                 ![n * 6 + 4] = n * 4 + 2,
                 ![n * 6 + 5] = n * 4 + 3]

\* Lines 99-104: the body of the index loop for quad n.
indexQuad(data, n) ==
    [data EXCEPT ![n * 6 + 0] = n * 4 + 0,
                 ![n * 6 + 1] = n * 4 + 1,
                 ![n * 6 + 2] = n * 4 + 2,
                 ![n * 6 + 3] = n * 4 + 0,
                 ![n * 6 + 4] = n * 4 + 2,
                 ![n * 6 + 5] = n * 4 + 3]

\* Lines 98-105: the index loop from quad n on, over a_maxParticles quads.
RECURSIVE indexLoop(_, _, _)
indexLoop(data, n, a_maxParticles) ==
    IF n < a_maxParticles
    THEN indexLoop(indexQuad(data, n), n + 1, a_maxParticles)
    ELSE data

\* Lines 97-105: the loop writes every element of the new array, so what
\* new unsigned int[] held before does not show.
indexData(a_maxParticles) ==
    indexLoop([k \in 0..(6 * a_maxParticles - 1) |-> 0], 0, a_maxParticles)

initialise(a_maxParticles, a_emitRate, a_lifetimeMin, a_lifetimeMax, a_velocityMin, a_velocityMax, a_startSize, a_endSize, a_startColour, a_endColour) ==
    /\ pc = "constructed"
    /\ m_emitTimer' = 0
    /\ m_emitRate' = RoundRatio(One, a_emitRate)
    /\ m_startColour' = a_startColour
    /\ m_endColour' = a_endColour
    /\ m_startSize' = a_startSize
    /\ m_endSize' = a_endSize
    /\ m_velocityMin' = a_velocityMin
    /\ m_velocityMax' = a_velocityMax
    /\ m_lifespanMin' = a_lifetimeMin
    /\ m_lifespanMax' = a_lifetimeMax
    /\ m_maxParticles' = a_maxParticles
    /\ m_particles' = [k \in 0..(a_maxParticles - 1) |-> NoParticle]
    /\ m_firstDead' = 0
    /\ m_vertexData' = [k \in 0..(4 * a_maxParticles - 1) |-> NoVertex]
    /\ vbo' = [k \in 0..(4 * a_maxParticles - 1) |-> NoVertex]
    /\ ibo' = indexData(a_maxParticles)
    /\ pc' = "idle"
    /\ UNCHANGED <<m_position, locals, drawn, uploaded, history, sweepH,
                   draws>>
    /\ UNCHANGED geometry

\* --------------------------------------------------------------------- emit
\* Lines 148-149 with rand() / (float)RAND_MAX = r.
emitLifespan(r) ==
    FAdd(FMul(r, FSub(m_lifespanMax, m_lifespanMin), One), m_lifespanMin)

\* The lifespans emit() can draw.
LifespanChoices == {emitLifespan(r) : r \in RandFractions}

\* Lines 154-160 with rand() / (float)RAND_MAX = r and the normalised
\* direction dir.
emitVelocity(r, dir) ==
    LET velocity ==
           FAdd(FMul(r, FSub(m_velocityMax, m_velocityMin), One),
                m_velocityMin)
    IN  [c \in 1..3 |-> FMul(dir[c], velocity, One)]

VelocityChoices ==
    {emitVelocity(r, dir) : r \in RandFractions, dir \in Directions}

emitSaturated_offByOne == m_firstDead > m_maxParticles

emitSaturated == m_firstDead >= m_maxParticles

\* The pool and the boundary after emit(), the new particle living for ls.
emitParticles_lifetimeKept(ls, vel) ==
    IF emitSaturated THEN m_particles
    ELSE [m_particles EXCEPT ![m_firstDead] =
             [id |-> (emitCalls - dropped) + 1,
              position |-> m_position,
              lifetime |-> @.lifetime, lifespan |-> ls,
              colour |-> m_startColour, size |-> m_startSize,
              velocity |-> vel]]

emitParticles(ls, vel) ==
    IF emitSaturated THEN m_particles
    ELSE [m_particles EXCEPT ![m_firstDead] =
             [id |-> (emitCalls - dropped) + 1,
              position |-> m_position,
              lifetime |-> 0, lifespan |-> ls,
              colour |-> m_startColour, size |-> m_startSize,
              velocity |-> vel]]

emitFirstDead_unguarded == m_firstDead + 1

emitFirstDead ==
    IF emitSaturated THEN m_firstDead ELSE m_firstDead + 1

\* ------------------------------------------------------------------- update
updateBegin_addsToRate(dt) ==
    /\ pc = "idle"
    /\ frame < MaxFrames
    /\ m_emitRate' = FAdd(m_emitRate, dt)
    /\ a_deltaTime' = dt
    /\ frame' = frame + 1
    /\ dtLog' = Append(dtLog, dt)
    /\ emitsNow' = 0
    /\ firstDeadAtEntry' = m_firstDead
    /\ draws' = 0
    /\ pc' = "emit"
    /\ UNCHANGED <<m_maxParticles, m_lifespanMin, m_lifespanMax,
                   m_velocityMin, m_velocityMax, m_startSize, m_endSize,
                   m_startColour, m_endColour, m_position, m_emitTimer,
                   m_firstDead, m_particles, m_vertexData, i, quad,
                   device, emitCalls, dropped, sweepH>>
    /\ UNCHANGED geometry

updateBegin(dt) ==
    /\ pc = "idle"
    /\ frame < MaxFrames
    /\ m_emitTimer' = FAdd(m_emitTimer, dt)
    /\ a_deltaTime' = dt
    /\ frame' = frame + 1
    /\ dtLog' = Append(dtLog, dt)
    /\ emitsNow' = 0
    /\ firstDeadAtEntry' = m_firstDead
    /\ draws' = 0
    /\ pc' = "emit"
    /\ UNCHANGED <<config, m_firstDead, m_particles, m_vertexData, i, quad,
                   device, emitCalls, dropped, sweepH>>
    /\ UNCHANGED geometry

emitLoopTest_inclusive == m_emitTimer >= m_emitRate

emitLoopTest_lagging == m_emitTimer > m_emitRate + m_emitRate

emitLoopTest == m_emitTimer > m_emitRate

\* One iteration of the while loop of lines 178-181.
updateEmit ==
    /\ pc = "emit"
    /\ emitLoopTest
    /\ emitsNow < MaxEmits
    /\ \E ls \in LifespanChoices, vel \in VelocityChoices :
          /\ m_particles' = emitParticles(ls, vel)
          /\ m_firstDead' = emitFirstDead
    /\ dropped' = IF emitSaturated THEN dropped + 1 ELSE dropped
    /\ emitCalls' = emitCalls + 1
    /\ emitsNow' = emitsNow + 1
    /\ m_emitTimer' = FSub(m_emitTimer, m_emitRate)
    /\ UNCHANGED <<pc, config, m_vertexData, locals, device, frame, dtLog,
                   firstDeadAtEntry, sweepH, draws>>
    /\ UNCHANGED geometry

LiveIds(particles, n) == {particles[k].id : k \in 0..(n - 1)}

\* The loop exits; quad = 0 and the for loop's i = 0.
updateEmitDone ==
    /\ pc = "emit"
    /\ ~emitLoopTest
    /\ quad' = 0
    /\ i' = 0
    /\ sweepLive' = LiveIds(m_particles, m_firstDead)
    /\ sweepAged' = {}
    /\ sweepRetired' = {}
    /\ pc' = "sweep"
    /\ UNCHANGED <<config, m_firstDead, m_emitTimer, m_particles,
                   m_vertexData, a_deltaTime, device, history, draws>>
    /\ UNCHANGED geometry

sweepTest_inclusive == i <= m_firstDead

\* The for loop's condition, line 185.
sweepTest == i < m_firstDead

agedParticle_stale == m_particles[i]

\* The particle of slot i after line 188.
agedParticle ==
    [m_particles[i] EXCEPT !.lifetime = FAdd(@, a_deltaTime)]

isDead_strict(p) == p.lifetime > p.lifespan

isDead(p) == p.lifetime >= p.lifespan

retireSlot_noCopy(aged) == aged

\* Line 192: slot i is overwritten with the last live record.
retireSlot(aged) == [aged EXCEPT ![i] = aged[m_firstDead - 1]]

\* The for loop's increment, run after either branch.
sweepNext(idx) == idx + 1

updateRetire_refill ==
    /\ pc = "sweep"
    /\ sweepTest
    /\ isDead(agedParticle)
    /\ \E ls \in LifespanChoices, vel \in VelocityChoices :
          m_particles' =
             [retireSlot([m_particles EXCEPT ![i] = agedParticle])
                EXCEPT ![m_firstDead - 1] =
                   [id |-> (emitCalls - dropped) + 1,
                    position |-> m_position,
                    lifetime |-> 0, lifespan |-> ls,
                    colour |-> m_startColour, size |-> m_startSize,
                    velocity |-> vel]]
    /\ emitCalls' = emitCalls + 1
    /\ emitsNow' = emitsNow + 1
    /\ i' = sweepNext(i)
    /\ sweepAged' = sweepAged \cup {m_particles[i].id}
    /\ sweepRetired' = sweepRetired \cup {m_particles[i].id}
    /\ UNCHANGED <<pc, config, m_firstDead, m_emitTimer, m_vertexData,
                   a_deltaTime, quad, device, frame, dtLog, dropped,
                   firstDeadAtEntry, sweepLive, draws>>
    /\ UNCHANGED geometry

\* Lines 188-194: the aged particle is dead; slot i takes the last live
\* record and the boundary drops.
updateRetire ==
    /\ pc = "sweep"
    /\ sweepTest
    /\ isDead(agedParticle)
    /\ m_particles' = retireSlot([m_particles EXCEPT ![i] = agedParticle])
    /\ m_firstDead' = m_firstDead - 1
    /\ i' = sweepNext(i)
    /\ sweepAged' = sweepAged \cup {m_particles[i].id}
    /\ sweepRetired' = sweepRetired \cup {m_particles[i].id}
    /\ UNCHANGED <<pc, config, m_emitTimer, m_vertexData, a_deltaTime, quad,
                   device, history, sweepLive, draws>>
    /\ UNCHANGED geometry

\* Lines 198-204: the surviving particle moved, sized and coloured.
survivedParticle ==
    LET p == agedParticle
        a == FDiv(p.lifetime, p.lifespan)
    IN  [p EXCEPT
           !.position = [c \in 1..3 |->
                           FAdd(p.position[c],
                                FMul(p.velocity[c], a_deltaTime, One))],
           !.size = Mix(m_startSize, m_endSize, a),
           !.colour = Mix(m_startColour, m_endColour, a)]

\* The four vertices of staging quad q, made from particle p in this frame.
quadVertices(q, p) ==
    [k \in 0..(4 * m_maxParticles - 1) |->
        IF k \div 4 = q
        THEN [src |-> p.id, frame |-> frame, corner |-> k % 4,
              size |-> p.size, colour |-> p.colour]
        ELSE m_vertexData[k]]

\* Lines 196-241: the particle survives and gets the next quad.
updateSurvive ==
    /\ pc = "sweep"
    /\ sweepTest
    /\ ~isDead(agedParticle)
    /\ m_particles' = [m_particles EXCEPT ![i] = survivedParticle]
    /\ m_vertexData' = quadVertices(quad, survivedParticle)
    /\ quad' = quad + 1
    /\ i' = sweepNext(i)
    /\ sweepAged' = sweepAged \cup {m_particles[i].id}
    /\ UNCHANGED <<pc, config, m_firstDead, m_emitTimer, a_deltaTime,
                   device, history, sweepLive, sweepRetired, draws>>
    /\ UNCHANGED geometry

updateReturn ==
    /\ pc = "sweep"
    /\ ~sweepTest
    /\ pc' = "idle"
    /\ UNCHANGED <<config, m_firstDead, m_emitTimer, m_particles,
                   m_vertexData, locals, device, history, sweepH, draws>>
    /\ UNCHANGED geometry

\* --------------------------------------------------------------------- draw
\* glBufferSubData(offset 0, m_firstDead * 4 records) on the device buffer.
drawUpload ==
    [k \in 0..(4 * m_maxParticles - 1) |->
        IF k < m_firstDead * 4 THEN m_vertexData[k] ELSE vbo[k]]

\* Records handed to glBufferSubData: m_firstDead * 4 * sizeof / sizeof.
drawUploadCount == m_firstDead * 4

drawCount_perVertex == m_firstDead * 4

drawCount == m_firstDead * 6

draw_clearsStaging ==
    /\ pc = "idle"
    /\ draws < MaxDraws
    /\ vbo' = drawUpload
    /\ drawn' = drawCount
    /\ uploaded' = drawUploadCount
    /\ draws' = draws + 1
    /\ m_vertexData' = [k \in 0..(4 * m_maxParticles - 1) |-> NoVertex]
    /\ UNCHANGED <<pc, config, m_firstDead, m_emitTimer, m_particles,
                   locals, ibo, history, sweepH>>
    /\ UNCHANGED geometry

draw ==
    /\ pc = "idle"
    /\ draws < MaxDraws
    /\ vbo' = drawUpload
    /\ drawn' = drawCount
    /\ uploaded' = drawUploadCount
    /\ draws' = draws + 1
    /\ UNCHANGED <<pc, config, m_firstDead, m_emitTimer, m_particles,
                   m_vertexData, locals, ibo, history, sweepH>>
    /\ UNCHANGED geometry

\* ---------------------------------------------------------------- billboard
\* The quad synthesis of lines 205-239 as a function of the camera and of
\* the particle's position and size.  A stationary particle stays at the
\* emitter's anchor, the origin.
cross_signSlip(x, y) ==
    <<FSub(FMul(x[2], y[3], RatioOne), FMul(y[2], x[3], RatioOne)),
      FSub(FMul(x[3], y[1], RatioOne), FMul(y[3], x[1], RatioOne)),
      FAdd(FMul(x[1], y[2], RatioOne), FMul(y[1], x[2], RatioOne))>>

\* glm::cross
cross(x, y) ==
    <<FSub(FMul(x[2], y[3], RatioOne), FMul(y[2], x[3], RatioOne)),
      FSub(FMul(x[3], y[1], RatioOne), FMul(y[3], x[1], RatioOne)),
      FSub(FMul(x[1], y[2], RatioOne), FMul(y[1], x[2], RatioOne))>>

\* glm::dot: the products, summed left to right.
dot(x, y) ==
    FAdd(FAdd(FMul(x[1], y[1], RatioOne), FMul(x[2], y[2], RatioOne)),
         FMul(x[3], y[3], RatioOne))

\* sqrt of a whole number that is a square.
Sqrt(n) == CHOOSE r \in 0..n : r * r = n

\* glm::inversesqrt of a whole number: 1 / sqrt(n).
inversesqrt(n) == RoundRatio(RatioOne, Sqrt(n))

\* glm::normalize of a vector of whole numbers: v * inversesqrt(dot(v, v)).
normalize(v) ==
    LET s == inversesqrt(v[1] * v[1] + v[2] * v[2] + v[3] * v[3])
    IN  <<Round24(v[1] * s), Round24(v[2] * s), Round24(v[3] * s)>>

\* Line 206.
halfSize == FMul(particle.size, RatioOne \div 2, RatioOne)

\* Lines 207-218: vertex k of the quad before the transform (w = 1).
localCorner(k) ==
    CASE k = 0 -> <<halfSize, halfSize, 0>>
      [] k = 1 -> <<-halfSize, halfSize, 0>>
      [] k = 2 -> <<-halfSize, -halfSize, 0>>
      [] k = 3 -> <<halfSize, -halfSize, 0>>

\* Lines 228-239: billboard * v + vec4(position, 0), with glm's order of
\* operations (m[0]*v.x + m[1]*v.y) + (m[2]*v.z + m[3]*v.w); the fourth
\* column of billboard is (0, 0, 0, 1).
billboardCornerAt(v) ==
    [c \in 1..3 |->
        FAdd(FAdd(FAdd(FMul(xAxis[c], v[1], RatioOne),
                       FMul(yAxis[c], v[2], RatioOne)),
                  FAdd(FMul(zAxis[c], v[3], RatioOne),
                       FMul(0, RatioOne, RatioOne))),
             particle.position[c] * RatioOne)]

\* Lines 221-223.
billboardAxes ==
    /\ bpc = "axes"
    /\ zAxis' = normalize([c \in 1..3 |->
                    a_cameraTransform.position[c] - particle.position[c]])
    /\ xAxis' = cross(a_cameraTransform.up, zAxis')
    /\ yAxis' = cross(zAxis', xAxis')
    /\ bpc' = "corners"
    /\ UNCHANGED <<emitter, a_cameraTransform, particle, billboardQuad>>

\* Lines 207-218 and 228-239 for the next vertex of the quad.
billboardCorner ==
    /\ bpc = "corners"
    /\ Len(billboardQuad) < 4
    /\ billboardQuad' =
          Append(billboardQuad, billboardCornerAt(localCorner(Len(billboardQuad))))
    /\ UNCHANGED <<emitter, bpc, a_cameraTransform, particle,
                   zAxis, xAxis, yAxis>>

\* A stationary particle at the anchor, of any size the sweep gives it, seen
\* by a camera that is level with it and has the world's up.
InitBillboard ==
    /\ InitEmitter
    /\ bpc = "axes"
    /\ a_cameraTransform \in CameraTransforms
    /\ particle \in {[position |-> <<0, 0, 0>>, size |-> sz] :
                         sz \in BillboardSizes}
    /\ zAxis = <<0, 0, 0>> /\ xAxis = <<0, 0, 0>> /\ yAxis = <<0, 0, 0>>
    /\ billboardQuad = << >>

NextBillboard == billboardAxes \/ billboardCorner

SpecBillboard == InitBillboard /\ [][NextBillboard]_vars

\* ------------------------------------------------------------ specification
Next ==
    \/ \E n \in 1..MaxCapacity, r \in EmitRates, l \in LifespanArgs,
          v \in VelocityArgs, sc \in SizeColourArgs :
          initialise(n, r, l[1], l[2], v[1], v[2], sc[1], sc[2], sc[3], sc[4])
    \/ \E dt \in DeltaTimes : updateBegin(dt)
    \/ updateEmit
    \/ updateEmitDone
    \/ updateRetire
    \/ updateSurvive
    \/ updateReturn
    \/ draw

Spec == Init /\ [][Next]_vars

TypeOK ==
    /\ pc \in {"constructed", "idle", "emit", "sweep"}
    /\ m_firstDead \in Int
    /\ quad \in Nat /\ i \in Nat

\* ================================================================== claims
RECURSIVE SumSeq(_)
SumSeq(s) == IF s = << >> THEN 0 ELSE Head(s) + SumSeq(Tail(s))

\* Number of slots below n that hold record r.
Count(particles, n, r) ==
    Cardinality({k \in 0..(n - 1) : particles[k] = r})

Returned == pc = "idle" /\ frame > 0

\* C1: the live count m_firstDead stays within 0..capacity in every state,
\* those between two emit() calls and between two retirements included.
C1_FirstDeadInRange ==
    0 <= m_firstDead /\ m_firstDead <= m_maxParticles

\* A sweep that has emptied a pool which had been saturated.
C1_Witness ==
    /\ pc = "sweep"
    /\ dropped > 0
    /\ sweepRetired # {}
    /\ m_firstDead = 0

\* C2: a retirement makes the sweep examine slot i again, so every particle
\* live when the sweep starts is aged in that update.
C2_ReplacementReexamined ==
    Returned => sweepAged = sweepLive

\* C3: after update() the quads written equal m_firstDead, and the staged
\* range [0, m_firstDead*4) holds this update's quads of distinct particles
\* that are live and have lifetime < lifespan.
C3_StagedRangeIsLive ==
    Returned =>
       /\ quad = m_firstDead
       /\ \A q \in 0..(m_firstDead - 1) :
             /\ \A c \in 0..3 :
                   /\ m_vertexData[4 * q + c].frame = frame
                   /\ m_vertexData[4 * q + c].src = m_vertexData[4 * q].src
             /\ \E k \in 0..(m_firstDead - 1) :
                   /\ m_particles[k].id = m_vertexData[4 * q].src
                   /\ m_particles[k].lifetime < m_particles[k].lifespan
             /\ \A q2 \in 0..(m_firstDead - 1) :
                   q2 # q => m_vertexData[4 * q2].src # m_vertexData[4 * q].src

\* C4 as stated: with no emission dropped, the emit() calls so far number
\* floor(total time / emitInterval).
C4_FloorCount ==
    (pc = "idle" /\ dropped = 0) =>
        emitCalls = SumSeq(dtLog) \div m_emitRate

\* Runs whose float sums and differences are all exact: interval 1 s or
\* 0.5 s and every dt a multiple of 0.5 s.
ExactRun ==
    /\ m_emitRate \in {F1_0, F0_5}
    /\ \A k \in 1..Len(dtLog) : dtLog[k] \in {0, F0_5, F1_0}

\* C4 amended: with no emission dropped and exact arithmetic, the emit()
\* calls number the positive multiples of emitInterval strictly below the
\* total time, however it is split; and emitRate 10 with dt 0.05, 0.05, 0.2
\* gives 3 emissions in binary32.
C4_StrictCount ==
    (pc = "idle" /\ dropped = 0) =>
       /\ ExactRun =>
             emitCalls = IF SumSeq(dtLog) = 0 THEN 0
                         ELSE (SumSeq(dtLog) - 1) \div m_emitRate
       /\ (m_emitRate = RoundRatio(One, 10) /\ dtLog = <<F0_05, F0_05, F0_2>>)
             => emitCalls = 3

\* Three exact updates whose total is a whole number of intervals.
C4_Witness ==
    /\ pc = "idle" /\ dropped = 0 /\ ExactRun
    /\ Len(dtLog) = 3
    /\ emitCalls >= 2
    /\ SumSeq(dtLog) % m_emitRate = 0

Scenario5 ==
    /\ pc = "idle"
    /\ m_maxParticles = 1
    /\ m_emitRate = F1_0
    /\ m_lifespanMin = F0_5 /\ m_lifespanMax = F0_5

\* C5 as stated: capacity 1, interval 1 s, lifespan 0.5 s: update(1.0)
\* emits once and leaves one live particle; update(0.5) then retires it
\* and emits nothing.
C5_ScenarioAsStated ==
    Scenario5 =>
       /\ frame = 0 => m_firstDead = 0
       /\ dtLog = <<F1_0>> => (emitCalls = 1 /\ m_firstDead = 1)
       /\ dtLog = <<F1_0, F0_5>> => (m_firstDead = 0 /\ emitsNow = 0)

\* C5 amended: update(1.0) emits nothing (the timer equals the interval),
\* update(0.5) then makes the one emission and its sweep retires that
\* particle at once, so the pool is empty after each call.
C5_Scenario ==
    Scenario5 =>
       /\ frame = 0 => m_firstDead = 0
       /\ dtLog = <<F1_0>> => (emitCalls = 0 /\ m_firstDead = 0)
       /\ dtLog = <<F1_0, F0_5>> =>
             /\ emitsNow = 1 /\ emitCalls = 1 /\ dropped = 0
             /\ sweepRetired = {1}
             /\ m_firstDead = 0

C5_Witness ==
    Scenario5 /\ dtLog = <<F1_0, F0_5>> /\ sweepRetired = {1}

\* C6: the sweep retires the particle of slot i exactly when its advanced
\* lifetime is >= its lifespan, writing no quad for it; otherwise the
\* particle stays live and gets a quad.
C6_RetireRule ==
    [][(pc = "sweep" /\ i < m_firstDead) =>
          LET p == m_particles[i]
              t == FAdd(p.lifetime, a_deltaTime)
          IN  IF t >= p.lifespan
              THEN /\ m_firstDead' = m_firstDead - 1
                   /\ p.id \notin LiveIds(m_particles', m_firstDead')
                   /\ m_vertexData' = m_vertexData
                   /\ quad' = quad
              ELSE /\ m_firstDead' = m_firstDead
                   /\ p.id \in LiveIds(m_particles', m_firstDead')
                   /\ quad' = quad + 1
                   /\ m_vertexData'[4 * quad].src = p.id
    ]_vars

\* A sweep that has both retired a particle and kept one.
C6_Witness ==
    pc = "sweep" /\ sweepRetired # {} /\ quad >= 1

\* C7: a retirement takes exactly the record of slot i out of the live
\* range; every other record is there as often as before.
C7_RetireRemovesOne ==
    [][(pc = "sweep" /\ m_firstDead' < m_firstDead) =>
          \A k \in 0..(m_firstDead - 1) :
             LET r == m_particles[k]
             IN  Count(m_particles', m_firstDead', r) =
                    Count(m_particles, m_firstDead, r)
                       - (IF r = m_particles[i] THEN 1 ELSE 0)
    ]_vars

\* The sweep's first step retired slot 0 and moved the last record into it.
C7_Witness ==
    /\ pc = "sweep"
    /\ Cardinality(sweepAged) = 1
    /\ sweepRetired = sweepAged
    /\ m_firstDead >= 1

\* C8: an emit() on a saturated pool changes neither the boundary nor any
\* record, and the loop still takes emitInterval off the timer.
C8_SaturatedEmitNoOp ==
    [][(pc = "emit" /\ m_emitTimer > m_emitRate
           /\ m_firstDead = m_maxParticles) =>
          /\ m_firstDead' = m_firstDead
          /\ m_particles' = m_particles
          /\ m_emitTimer' = FSub(m_emitTimer, m_emitRate)
    ]_vars

C8_Witness ==
    pc = "emit" /\ dropped >= 1 /\ m_firstDead = m_maxParticles

\* C9 as stated: once the emission loop has ended the timer is within
\* [0, emitInterval], and no update makes more than
\* floor(dt / emitInterval) + 1 emit() calls.
C9_BoundAsStated ==
    pc # "constructed" =>
       /\ pc \in {"idle", "sweep"} =>
             (0 <= m_emitTimer /\ m_emitTimer <= m_emitRate)
       /\ emitsNow <= (a_deltaTime \div m_emitRate) + 1

\* C9 amended: the timer is within [0, emitInterval] once the emission
\* loop has ended, and no update makes more than
\* floor(dt / emitInterval) + 2 emit() calls: the rounding of the timer
\* can add one call to the bound of exact arithmetic.
C9_NoBacklog ==
    pc # "constructed" =>
       /\ pc \in {"idle", "sweep"} =>
             (0 <= m_emitTimer /\ m_emitTimer <= m_emitRate)
       /\ emitsNow <= (a_deltaTime \div m_emitRate) + 2
       /\ ExactRun => emitsNow <= (a_deltaTime \div m_emitRate) + 1

\* An update after one that dropped emissions reaches the bound.
C9_Witness ==
    /\ pc = "idle" /\ frame >= 2 /\ dropped >= 1
    /\ emitsNow = (a_deltaTime \div m_emitRate) + 2

\* C10: draw() leaves m_firstDead, the pool, the timer and the staging
\* buffer alone, and a draw() that follows a draw() leaves the device
\* buffer and the draw-call count as they were.
C10_DrawIdempotent ==
    [][(draws' = draws + 1) =>
          /\ UNCHANGED <<m_firstDead, m_particles, m_emitTimer, m_vertexData>>
          /\ draws >= 1 => (vbo' = vbo /\ drawn' = drawn)
    ]_vars

C10_Witness ==
    draws = 2 /\ m_firstDead >= 1 /\ quad >= 1

\* C11: draw() uploads exactly the first m_firstDead*4 staging records to
\* offset 0 of the device buffer, within the capacity*4 records allocated,
\* and draws m_firstDead*6 indices; nothing when m_firstDead = 0.
C11_DrawUploadsLivePrefix ==
    [][(draws' = draws + 1) =>
          /\ uploaded' = 4 * m_firstDead
          /\ uploaded' <= 4 * m_maxParticles
          /\ DOMAIN vbo' = 0..(4 * m_maxParticles - 1)
          /\ \A k \in 0..(4 * m_maxParticles - 1) :
                vbo'[k] = IF k < 4 * m_firstDead THEN m_vertexData[k]
                          ELSE vbo[k]
          /\ drawn' = 6 * m_firstDead
          /\ m_firstDead = 0 => (uploaded' = 0 /\ drawn' = 0 /\ vbo' = vbo)
    ]_vars

\* A draw of a partly filled pool.
C11_Witness ==
    /\ draws >= 1
    /\ 1 <= m_firstDead /\ m_firstDead < m_maxParticles
    /\ drawn = 6 * m_firstDead /\ uploaded = 4 * m_firstDead

\* The value x * (1 - a) + y * a of a ramp between 0 and 1.0.
Ramp(x, y, a) ==
    CASE x = y -> x
      [] x = 0 /\ y = RatioOne -> a
      [] x = RatioOne /\ y = 0 -> FSub(RatioOne, a)

\* The size and colour the sweep last gave a particle.
SizeAt(p) ==
    IF p.lifetime = 0 THEN m_startSize
    ELSE Ramp(m_startSize, m_endSize, FDiv(p.lifetime, p.lifespan))

ColourAt(p) ==
    IF p.lifetime = 0 THEN m_startColour
    ELSE Ramp(m_startColour, m_endColour, FDiv(p.lifetime, p.lifespan))

C13_EmitEffect ==
    [][(pc = "emit" /\ emitLoopTest /\ m_firstDead < m_maxParticles) =>
          /\ m_firstDead' = m_firstDead + 1
          /\ m_particles'[m_firstDead].lifetime = 0
          /\ m_particles'[m_firstDead].position = m_position
          /\ m_particles'[m_firstDead].size = m_startSize
          /\ m_particles'[m_firstDead].colour = m_startColour
          /\ m_lifespanMin <= m_particles'[m_firstDead].lifespan
          /\ m_particles'[m_firstDead].lifespan <= m_lifespanMax
          /\ \A k \in 0..(m_firstDead - 1) : m_particles'[k] = m_particles[k]
    ]_vars

\* C14: between operations every live particle has 0 <= lifetime <= lifespan.
C14_LifetimeInRange ==
    pc = "idle" =>
       \A k \in 0..(m_firstDead - 1) :
          /\ 0 <= m_particles[k].lifetime
          /\ m_particles[k].lifetime <= m_particles[k].lifespan

\* After two updates and a draw the pool holds two particles part-way
\* through their lives, one older than the other.
C14_Witness ==
    /\ Returned /\ frame >= 2 /\ draws >= 1
    /\ \E k, n \in 0..(m_firstDead - 1) :
          /\ 0 < m_particles[k].lifetime
          /\ m_particles[k].lifetime < m_particles[n].lifetime
          /\ m_particles[n].lifetime < m_particles[n].lifespan

\* The six indices the two triangles of a quad take, relative to the quad's
\* first vertex.
QuadPattern == <<0, 1, 2, 0, 2, 3>>

\* C15: after initialise the index buffer holds 4q, 4q+1, 4q+2, 4q, 4q+2,
\* 4q+3 at positions 6q..6q+5 for every quad slot q below the capacity, and
\* no later step writes it.
C15_IndexBufferFixed ==
    [][(pc' # "constructed") =>
          /\ DOMAIN ibo' = 0..(6 * m_maxParticles' - 1)
          /\ \A q \in 0..(m_maxParticles' - 1) : \A c \in 0..5 :
                ibo'[6 * q + c] = 4 * q + QuadPattern[c + 1]
          /\ (pc # "constructed") => ibo' = ibo
    ]_vars

\* An emitter of three quads that has emitted, been updated and drawn.
C15_Witness ==
    /\ Returned /\ draws >= 1 /\ emitCalls >= 1
    /\ m_maxParticles = MaxCapacity
    /\ ibo[6] = 4 /\ ibo[9] = 4 /\ ibo[11] = 7

\* C16: what initialise stored (capacity, emit interval, lifespan range,
\* speed range, start and end size, start and end colour) is changed by no
\* step of emit(), update() or draw().
C16_ConfigurationKept ==
    [][(pc # "constructed") =>
          UNCHANGED <<m_maxParticles, m_emitRate, m_lifespanMin,
                      m_lifespanMax, m_velocityMin, m_velocityMax,
                      m_startSize, m_endSize, m_startColour, m_endColour>>
    ]_vars

\* Two updates with emissions and a retirement, then a draw, and the
\* configuration is still the one initialise was given.
C16_Witness ==
    /\ Returned /\ frame >= 2 /\ draws >= 1
    /\ emitCalls >= 2 /\ sweepRetired # {}
    /\ m_maxParticles = 2
    /\ m_emitRate = RoundRatio(One, 10)
    /\ <<m_lifespanMin, m_lifespanMax>> = <<F2_0, F2_0>>
    /\ <<m_startSize, m_endSize, m_startColour, m_endColour>> =
          <<RatioOne, 0, 0, RatioOne>>

\* x * y for floats x and y, exactly: <<q, r>> stands for q + r / RatioOne
\* units, 0 <= r < RatioOne.
ExactProduct(x, y) ==
    LET p == Product(Abs(x), Abs(y), RatioOne)
    IN  IF (x < 0) = (y < 0) THEN p
        ELSE IF p[2] = 0 THEN <<-p[1], 0>>
        ELSE <<-p[1] - 1, RatioOne - p[2]>>

ExactSum(a, b) ==
    <<a[1] + b[1] + (a[2] + b[2]) \div RatioOne, (a[2] + b[2]) % RatioOne>>

\* The dot product of two float vectors in real arithmetic.
ExactDot(u, v) ==
    ExactSum(ExactSum(ExactProduct(u[1], v[1]), ExactProduct(u[2], v[2])),
             ExactProduct(u[3], v[3]))

\* -n <= e <= n units
ExactWithin(e, n) == -n <= e[1] /\ (e[1] < n \/ e = <<n, 0>>)

\* Corner k of the quad minus the particle's position.
CornerOffset(k) ==
    [c \in 1..3 |-> FSub(billboardQuad[k][c], particle.position[c] * RatioOne)]

\* The forward axis lies along a world axis.
AlongWorldAxis(v) == Cardinality({c \in 1..3 : v[c] # 0}) = 1

\* C17, as stated: the right and up axes have zero dot product with the
\* forward axis, and every corner minus the particle's position has zero
\* component along forward.
C17_QuadPerpendicular ==
    (bpc = "corners") =>
       /\ ExactDot(xAxis, zAxis) = <<0, 0>>
       /\ ExactDot(yAxis, zAxis) = <<0, 0>>
       /\ \A k \in 1..Len(billboardQuad) :
             ExactDot(CornerOffset(k), zAxis) = <<0, 0>>

\* C17, amended: the right and up axes have zero dot product with the forward
\* axis, in real and in float arithmetic; every corner minus the particle's
\* position has a component along forward of at most 2^-24, which is zero
\* when forward lies along a world axis.
C17_QuadPerpendicularRounded ==
    (bpc = "corners") =>
       /\ ExactDot(xAxis, zAxis) = <<0, 0>> /\ dot(xAxis, zAxis) = 0
       /\ ExactDot(yAxis, zAxis) = <<0, 0>> /\ dot(yAxis, zAxis) = 0
       /\ \A k \in 1..Len(billboardQuad) :
             /\ ExactWithin(ExactDot(CornerOffset(k), zAxis), 2^6)
             /\ AlongWorldAxis(zAxis) =>
                   ExactDot(CornerOffset(k), zAxis) = <<0, 0>>

\* A whole quad for a camera turned about the vertical, with a corner that is
\* off the plane through the particle.
C17_Witness ==
    /\ bpc = "corners" /\ Len(billboardQuad) = 4
    /\ zAxis[1] # 0 /\ zAxis[3] # 0
    /\ xAxis # <<0, 0, 0>> /\ yAxis # <<0, 0, 0>>
    /\ \E k \in 1..4 : ExactDot(CornerOffset(k), zAxis) # <<0, 0>>

C19_EmitThenSweep ==
    [][/\ (pc = "emit" /\ pc' = "emit") =>
             /\ emitCalls' = emitCalls + 1
             /\ m_firstDead' >= m_firstDead
             /\ \A k \in 0..(m_firstDead - 1) : m_particles'[k] = m_particles[k]
       /\ (emitCalls' # emitCalls) => (pc = "emit" /\ pc' = "emit")
       /\ (pc' = "sweep") =>
             /\ pc \in {"emit", "sweep"}
             /\ Cardinality(sweepLive') - firstDeadAtEntry'
                   <= m_maxParticles - firstDeadAtEntry'
             /\ Cardinality(sweepLive') - firstDeadAtEntry' >= 0
             /\ Cardinality(sweepLive') - firstDeadAtEntry' <= emitsNow'
             /\ m_firstDead' <= Cardinality(sweepLive')
       /\ (pc = "sweep") =>
             /\ pc' \in {"sweep", "idle"}
             /\ m_firstDead' <= m_firstDead
             /\ \A k \in m_firstDead'..(m_maxParticles - 1) :
                   m_particles'[k].id \in
                      {m_particles[n].id : n \in 0..(m_maxParticles - 1)}
    ]_vars

\* The end of a sweep in an update that found live particles, filled the pool
\* to capacity and then retired some.
C19_Witness ==
    /\ pc = "sweep" /\ ~sweepTest
    /\ firstDeadAtEntry >= 1
    /\ emitsNow >= 1
    /\ Cardinality(sweepLive) = m_maxParticles
    /\ Cardinality(sweepLive) > firstDeadAtEntry
    /\ sweepRetired # {}
    /\ m_firstDead < Cardinality(sweepLive)

\* C20: update() terminates: every iteration of the emission loop leaves
\* m_emitTimer strictly smaller, by m_emitRate, and the sweep runs at most as
\* many iterations as there were live particles when it started.
C20_LoopsProgress ==
    [][/\ (pc = "emit" /\ emitLoopTest) =>
             /\ m_emitTimer' = FSub(m_emitTimer, m_emitRate)
             /\ m_emitTimer' < m_emitTimer
       /\ (pc = "sweep" /\ sweepTest) =>
             /\ i' = i + 1
             /\ m_firstDead' <= m_firstDead
             /\ i' <= Cardinality(sweepLive)
    ]_vars


====
